---- MODULE Spec2Model ----
(***************************************************************************)
(* State-machine model of src/src/main.js: the avatar acquisition          *)
(* (ensureGvrmModule, loadGvrmAvatar, loadSimpleVRMFromGvrm, init), the    *)
(* animation switch (switchAnimation), the audio side (loadAudioBuffer,    *)
(* switchAudio, setupAudio, the one-shot pointerdown listener), and the    *)
(* palette and render loop (applyPalette, animate, SimplexNoise).          *)
(*                                                                         *)
(* Scheduling is the browser's event loop.  Every `await` of the source is *)
(* a suspension point: the code up to the next await is one action.  The   *)
(* settling of an external promise (module import, GVRM.load, fetch,       *)
(* GLTF loader, AudioLoader.load, changeFBX, AudioContext.resume) is the   *)
(* environment's choice, drawn with \E, and the continuation of the        *)
(* awaiting function is part of the action that settles it.                *)
(***************************************************************************)
EXTENDS Integers, Sequences, FiniteSets, TLC

\* animationOptions.length and audioOptions.length
NumAnimations == 4
NumAudio == 2
\* paletteOptions.length, and colors.haloOpacity of each palette in hundredths
NumPalettes == 3
PaletteHaloOpacity == <<12, 16, 14>>
\* SimplexNoise: entries of p (perm has twice as many), gradients of grad3
PermSize == 256
NumGradients == 12

\* Fixed-point units.  A pulse is an integer number of 1/1280 (an average
\* frequency f gives f / 128 = 10 f / 1280); a base opacity is an integer
\* number of hundredths; an opacity b * (0.7 + a * 0.6) is then the integer
\* b * (8960 + 6 a) in units of 1 / (100 * 1280 * 10).
PulseUnit == 1280
OpacityUnit == 1280000

\* Bounds of the exploration.
MaxEnsureCalls == 2      \* ensureGvrmModule calls made beyond loadGvrmAvatar's
MaxCandidates == 2       \* longest candidate list explored (the shipped list has 1)
MaxAnimRequests == 2     \* changeFBX calls issued in a run
MaxAudioRequests == 3    \* switchAudio calls issued in a run (setupAudio's included)

AnimationIndices == 0 .. (NumAnimations - 1)
AudioIndices == 0 .. (NumAudio - 1)

VARIABLES
  \* ---- acquisition / init
  nCandidates,            \* candidates.length in loadGvrmAvatar (1 as shipped; the
                          \* loop is explored for every length up to MaxCandidates)
  initPc,                 \* where init() is suspended
  gvrmModulePromise,      \* "unset" | "pending" | "class" | "null"
  gvrmModuleLoadError,    \* "none" | "importError"
  imports,                \* import('gvrm-format/gvrm.js') expressions evaluated (history)
  ensureCalls,            \* ensureGvrmModule calls made after loadGvrmAvatar's (history)
  ensureYield,            \* what the last of those calls returned: the promise's state
  candidate,              \* 1-based position of the for-loop in loadGvrmAvatar
  lastError,              \* loadGvrmAvatar's lastError: <<kind, candidate>>
  avatarCapabilities,     \* [supportsFBX, mode]
  gvrmInstance,           \* "undefined" | "gvrm" | "simple-vrm"
  gvrmIsReady,            \* gvrmInstance.isReady
  liveObjectUrls,         \* object URLs created and not yet revoked
  urlsCreated,            \* URL.createObjectURL calls made (history)
  animationButtonsDisabled, \* button.disabled of the animation buttons
  \* ---- animation switching
  currentAnimationIndex,
  desiredAnimationIndex,
  animationRequestId,
  activeAnimationButton,  \* index of the animation button marked is-active
  animPending,            \* switchAnimation calls suspended at `await changeFBX`
  \* ---- audio switching
  currentAudioIndex,
  desiredAudioIndex,
  audioRequestId,
  activeAudioButton,      \* index of the audio button marked is-active
  buffers,                \* audioState.buffers: url -> load whose promise is cached, 0 = no entry
  loads,                  \* audioState.loader.load calls: [url, state]
  audio,                  \* audioState.audio: [isPlaying, buffer]; buffer k is load k's result
  audioAnalyser,          \* 0 = null, else the id of the request that created it
  audioPending,           \* switchAudio calls suspended at an await
  pointerdown,            \* the once-listener: "armed" | "resume" | "done"
  \* ---- palette, halo, noise generator
  currentPaletteIndex,
  haloBaseOpacity,        \* in hundredths
  haloOpacity,            \* halo.material.opacity, in units of 1 / OpacityUnit
  simplexPerm,            \* simplex.perm: 0 .. 511 -> 0 .. 255
  drift,                  \* the last noise2D call: [input, value]
  \* ---- history (not program state)
  haloPulse,              \* pulse of the frame that wrote haloOpacity last, in
                          \* units of 1 / PulseUnit; 0 when applyPalette wrote it
  noiseFirst,             \* the first noise2D call made: [input, value]
  noiseBetween,           \* a call with another input followed the first one
  audioFinished,          \* the switchAudio call that returned last: [id, outcome]
  delivered,              \* <<url, buffer>> pairs loadAudioBuffer's callers received
  attempts,               \* backend attempts made so far, in order
  acquireError,           \* what loadGvrmAvatar rejected with
  capabilityWrites,       \* assignments to avatarCapabilities after its initializer
  animHistory             \* last switchAnimation call and last changeFBX settlement
                          \* (settled: the request that settled last and how;
                          \* afterInit: the last call was not init's own)

\* Written by HandlePaletteSelect and Animate only; part of acqVars, acqQuiet
\* and acqRest, so that every other action leaves it unchanged.
renderVars == <<currentPaletteIndex, haloBaseOpacity, haloOpacity, simplexPerm, drift,
                haloPulse, noiseFirst, noiseBetween>>
acqVars == <<nCandidates, ensureCalls, ensureYield, renderVars, initPc, gvrmModulePromise,
             imports, gvrmModuleLoadError, candidate, lastError, avatarCapabilities,
             gvrmInstance, gvrmIsReady, liveObjectUrls, urlsCreated,
             animationButtonsDisabled, attempts, acquireError, capabilityWrites>>
animVars == <<currentAnimationIndex, desiredAnimationIndex, animationRequestId,
              activeAnimationButton, animPending, animHistory>>
audioVars == <<currentAudioIndex, desiredAudioIndex, audioRequestId, activeAudioButton,
               buffers, loads, audio, audioAnalyser, audioPending, pointerdown,
               audioFinished, delivered>>
vars == <<acqVars, animVars, audioVars>>

NoError == <<"none", 0>>

TypeOK ==
  /\ nCandidates \in 1 .. MaxCandidates
  /\ initPc \in {"start", "audio", "module", "primary", "fallback", "fallbackLoad",
                 "animation", "running"}
  /\ gvrmModulePromise \in {"unset", "pending", "class", "null"}
  /\ gvrmModuleLoadError \in {"none", "importError"}
  /\ imports \in 0 .. 1
  /\ ensureCalls \in 0 .. MaxEnsureCalls
  /\ ensureYield \in {"none", "pending", "class", "null"}
  /\ candidate \in 0 .. nCandidates
  /\ avatarCapabilities \in [supportsFBX : BOOLEAN,
                             mode : {"loading", "gvrm", "simple-vrm", "error"}]
  /\ gvrmInstance \in {"undefined", "gvrm", "simple-vrm"}
  /\ gvrmIsReady \in BOOLEAN
  /\ liveObjectUrls \in 0 .. 1
  /\ animationButtonsDisabled \in BOOLEAN
  /\ currentAnimationIndex \in AnimationIndices
  /\ desiredAnimationIndex \in AnimationIndices
  /\ activeAnimationButton \in AnimationIndices
  /\ animationRequestId \in 0 .. MaxAnimRequests
  /\ \A r \in animPending : r.id \in 1 .. animationRequestId /\ r.index \in AnimationIndices
  /\ currentAudioIndex \in AudioIndices
  /\ desiredAudioIndex \in AudioIndices
  /\ activeAudioButton \in AudioIndices
  /\ audioRequestId \in 0 .. MaxAudioRequests
  /\ buffers \in [AudioIndices -> 0 .. Len(loads)]
  /\ \A k \in 1 .. Len(loads) :
       loads[k].url \in AudioIndices /\ loads[k].state \in {"pending", "ok", "fail"}
  /\ audio \in [isPlaying : BOOLEAN, buffer : 0 .. Len(loads)]
  /\ audioAnalyser \in 0 .. audioRequestId
  /\ \A r \in audioPending :
       /\ r.id \in 1 .. audioRequestId
       /\ r.index \in AudioIndices
       /\ r.pc \in {"load", "resume"}
       /\ r.load \in 1 .. Len(loads)
  /\ pointerdown \in {"armed", "resume", "done"}
  /\ currentPaletteIndex \in 0 .. (NumPalettes - 1)
  /\ haloBaseOpacity = PaletteHaloOpacity[currentPaletteIndex + 1]
  /\ haloOpacity \in 0 .. OpacityUnit
  /\ haloPulse \in 0 .. (2 * PulseUnit)
  /\ DOMAIN simplexPerm = 0 .. (2 * PermSize - 1)
  /\ \A i \in DOMAIN simplexPerm : simplexPerm[i] \in 0 .. (PermSize - 1)
  /\ noiseBetween \in BOOLEAN
  /\ urlsCreated \in 0 .. nCandidates
  /\ animHistory.settled.outcome \in {"none", "committed", "dropped", "rejected"}

(***************************************************************************)
(* Acquisition: ensureGvrmModule, loadGvrmAvatar, loadSimpleVRMFromGvrm.   *)
(***************************************************************************)

\* const GVRMClass = await ensureGvrmModule(): truthy only for a loaded class.
GVRMClass == gvrmModulePromise = "class"

\* Faulty variant of ensureGvrmModule: the test of lines 11-13 is missing,
\* every call evaluates the import again.
ensureGvrmModuleNoMemo ==
  /\ gvrmModulePromise' = "pending"
  /\ imports' = imports + 1

\* ensureGvrmModule() (lines 10-22): the stored promise if there is one,
\* else the import is started and its promise stored.
ensureGvrmModule ==
  IF gvrmModulePromise # "unset"
    THEN UNCHANGED <<gvrmModulePromise, imports>>
    ELSE /\ gvrmModulePromise' = "pending"
         /\ imports' = imports + 1

\* Capability records written by loadGvrmAvatar and by init's catch.
PrimaryCapabilities == [supportsFBX |-> TRUE, mode |-> "gvrm"]
FallbackCapabilities == [supportsFBX |-> FALSE, mode |-> "simple-vrm"]
ErrorCapabilities == [supportsFBX |-> FALSE, mode |-> "error"]

\* updateAnimationButtonState: button.disabled = !avatarCapabilities.supportsFBX
updateAnimationButtonState(caps) == ~caps.supportsFBX

\* Faulty variant of the test of line 551: the primary backend is tried
\* whether or not the class loaded.
FirstBackendAlwaysPrimary(class) == "primary"

\* The backend the for-loop tries first for a candidate: `if (GVRMClass)`.
FirstBackend(class) == IF class THEN "primary" ELSE "fallback"

\* Faulty variant of line 585: the generic error is thrown, lastError lost.
ThrownErrorGeneric(err, class, loadError) == <<"generic", 0>>

\* lines 581-585: what loadGvrmAvatar throws once the loop is exhausted.
ThrownError(err, class, loadError) ==
  LET e == IF ~class /\ loadError # "none" /\ err = NoError THEN <<"import", 0>> ELSE err
  IN IF e = NoError THEN <<"generic", 0>> ELSE e

\* Faulty variant of the guards of switchAnimation: the capability record is
\* not tested (lines 383-385 missing).
AnimationGateNoCapabilityCheck(caps, inst, ready) ==
  /\ inst # "undefined"
  /\ ready

\* Faulty variant of the guards of switchAnimation: isReady is not tested.
AnimationGateNoReadyCheck(caps, inst, ready) ==
  /\ caps.supportsFBX
  /\ inst # "undefined"

\* The guards of switchAnimation (lines 383-388): TRUE when the call goes on
\* to changeFBX.
AnimationGate(caps, inst, ready) ==
  /\ caps.supportsFBX
  /\ inst # "undefined"
  /\ ready

\* Faulty variant of switchAnimation: line 381 placed after the guards of
\* lines 383-388, so that a gated call does not record the selection.
switchAnimationRecordsAfterGate(index, caps, inst, ready, byInit) ==
  /\ activeAnimationButton' = index
  /\ IF AnimationGate(caps, inst, ready)
       THEN /\ desiredAnimationIndex' = index
            /\ animationRequestId' = animationRequestId + 1
            /\ animPending' = animPending \cup
                 {[id |-> animationRequestId + 1, index |-> index, byInit |-> byInit]}
            /\ animHistory' = [animHistory EXCEPT !.calls = 1 - @, !.lastIndex = index,
                                                  !.lastGated = FALSE, !.latestIndex = index,
                                                  !.latestOk = FALSE, !.afterInit = ~byInit]
       ELSE /\ UNCHANGED <<desiredAnimationIndex, animationRequestId, animPending>>
            /\ animHistory' = [animHistory EXCEPT !.calls = 1 - @, !.lastIndex = index,
                                                  !.lastGated = TRUE, !.afterInit = ~byInit]
  /\ UNCHANGED currentAnimationIndex

\* switchAnimation(index) up to its first await, with the capability record
\* and avatar handle it reads; byInit marks init's own call, which init awaits.
switchAnimation(index, caps, inst, ready, byInit) ==
  /\ desiredAnimationIndex' = index
  /\ activeAnimationButton' = index
  /\ IF AnimationGate(caps, inst, ready)
       THEN /\ animationRequestId' = animationRequestId + 1
            /\ animPending' = animPending \cup
                 {[id |-> animationRequestId + 1, index |-> index, byInit |-> byInit]}
            /\ animHistory' = [animHistory EXCEPT !.calls = 1 - @, !.lastIndex = index,
                                                  !.lastGated = FALSE, !.latestIndex = index,
                                                  !.latestOk = FALSE, !.afterInit = ~byInit]
       ELSE /\ UNCHANGED <<animationRequestId, animPending>>
            /\ animHistory' = [animHistory EXCEPT !.calls = 1 - @, !.lastIndex = index,
                                                  !.lastGated = TRUE, !.afterInit = ~byInit]
  /\ UNCHANGED currentAnimationIndex

(***************************************************************************)
(* Scheduling.  A continuation whose awaited promise is already settled is *)
(* a microtask: it runs before any further event (click, pointerdown) and  *)
(* before any further external settlement, in the order the awaits were    *)
(* registered.                                                             *)
(***************************************************************************)

\* switchAudio calls whose `await loadAudioBuffer(...)` can resume.
Runnable == {r \in audioPending : r.pc = "load" /\ loads[r.load].state # "pending"}

MicrotasksDrained == Runnable = {}

(***************************************************************************)
(* Palette, halo and noise generator.                                      *)
(***************************************************************************)

\* THREE.MathUtils.clamp(value, min, max)
clamp(value, min, max) == IF value < min THEN min ELSE IF value > max THEN max ELSE value

\* lines 607-610: the pulse of a frame, from the analyser's average
\* frequency (0 .. 255) when there is an analyser, else from
\* sin(timeAccumulator * 1.2), given in hundredths.
Pulse(analyser, avgFrequency, sine) ==
  IF analyser # 0
    THEN clamp(avgFrequency * 10, (2 * PulseUnit) \div 10, (18 * PulseUnit) \div 10)
    ELSE (4 * PulseUnit) \div 10 + (sine * 2 * PulseUnit) \div 1000

\* Faulty variant of line 621: the pulse is not scaled by 0.6.
HaloOpacityUnscaledPulse(base, pulse) ==
  clamp(base * (8960 + 10 * pulse), (2 * OpacityUnit) \div 100, (6 * OpacityUnit) \div 10)

\* line 621: clamp(haloBaseOpacity * (0.7 + pulse * 0.6), 0.02, 0.6)
HaloOpacity(base, pulse) ==
  clamp(base * (8960 + 6 * pulse), (2 * OpacityUnit) \div 100, (6 * OpacityUnit) \div 10)

\* lines 672-675: p[i] = i for i = lo .. hi, as the tuple of p[lo] .. p[hi]
\* (entry i of p is element i + 1 of the tuple).
RECURSIVE Identity(_, _)
Identity(lo, hi) ==
  IF lo = hi
    THEN <<lo>>
    ELSE LET mid == (lo + hi) \div 2
         IN Identity(lo, mid) \o Identity(mid + 1, hi)

\* One iteration of the shuffle loop (lines 678-683).  With
\* k = floor(seed * 1e4), floor((seed * 1e4 + i) % (i + 1)) is (k + i) % (i + 1).
Swap(p, i, k) ==
  LET n == (k + i) % (i + 1)
  IN [p EXCEPT ![i + 1] = p[n + 1], ![n + 1] = p[i + 1]]

\* The iterations of the shuffle loop for i = hi down to lo, in that order.
RECURSIVE Shuffle(_, _, _, _)
Shuffle(p, hi, lo, k) ==
  IF hi = lo
    THEN Swap(p, hi, k)
    ELSE LET mid == (hi + lo) \div 2
             upper == Shuffle(p, hi, mid + 1, k)
         IN IF Len(upper) = Len(p) THEN Shuffle(upper, mid, lo, k) ELSE upper

\* new SimplexNoise(seed) (lines 671-688): this.perm, perm[i] = p[i & 255].
SimplexNoise(k) ==
  LET p == Shuffle(Identity(0, PermSize - 1), PermSize - 1, 1, k)
  IN [i \in 0 .. (2 * PermSize - 1) |-> p[(i % PermSize) + 1]]

\* lines 717-721 of noise2D: the gradient indices of the three corners, for
\* the lattice cell (i, j) and the middle corner offset (i1, j1) that lines
\* 695-710 derive from (x, y).  The value returned at line 756 is a fixed
\* function of (x, y) and of these three indices.
GradientIndices(perm, cell) ==
  LET ii == cell.i % PermSize
      jj == cell.j % PermSize
  IN <<perm[ii + perm[jj]] % NumGradients,
       perm[ii + cell.i1 + perm[jj + cell.j1]] % NumGradients,
       perm[ii + 1 + perm[jj + 1]] % NumGradients>>

\* Inputs of the frames explored.
AvgFrequencySamples == {0, 128, 255}
SineSamples == {-100, 0, 100}
SeedSamples == {0, 4711}
NoiseCells ==
  {[i |-> 0, j |-> 0, i1 |-> 1, j1 |-> 0],
   [i |-> 3, j |-> 200, i1 |-> 0, j1 |-> 1],
   [i |-> 255, j |-> 255, i1 |-> 1, j1 |-> 0]}

NoCall == [input |-> <<>>, value |-> <<>>]

Init ==
  /\ currentPaletteIndex = 0
  /\ haloBaseOpacity = PaletteHaloOpacity[1]
  /\ haloOpacity = PaletteHaloOpacity[1] * (OpacityUnit \div 100)
  /\ haloPulse = 0
  /\ \E k \in SeedSamples : simplexPerm = SimplexNoise(k)
  /\ drift = NoCall
  /\ noiseFirst = NoCall
  /\ noiseBetween = FALSE
  /\ nCandidates \in 1 .. MaxCandidates
  /\ initPc = "start"
  /\ gvrmModulePromise = "unset"
  /\ gvrmModuleLoadError = "none"
  /\ imports = 0
  /\ ensureCalls = 0
  /\ ensureYield = "none"
  /\ candidate = 0
  /\ lastError = NoError
  /\ avatarCapabilities = [supportsFBX |-> FALSE, mode |-> "loading"]
  /\ gvrmInstance = "undefined"
  /\ gvrmIsReady = FALSE
  /\ liveObjectUrls = 0
  /\ urlsCreated = 0
  /\ animationButtonsDisabled = TRUE
  /\ currentAnimationIndex = 0
  /\ desiredAnimationIndex = 0
  /\ animationRequestId = 0
  /\ activeAnimationButton = 0
  /\ animPending = {}
  /\ currentAudioIndex = 0
  /\ desiredAudioIndex = 0
  /\ audioRequestId = 0
  /\ activeAudioButton = 0
  /\ buffers = [u \in AudioIndices |-> 0]
  /\ loads = <<>>
  /\ audio = [isPlaying |-> FALSE, buffer |-> 0]
  /\ audioAnalyser = 0
  /\ audioPending = {}
  /\ pointerdown = "armed"
  /\ attempts = <<>>
  /\ acquireError = NoError
  /\ capabilityWrites = 0
  /\ animHistory = [calls |-> 0, lastIndex |-> 0, lastGated |-> FALSE, latestIndex |-> 0,
                    latestOk |-> FALSE, dropped |-> FALSE, afterInit |-> FALSE,
                    settled |-> [id |-> 0, outcome |-> "none"]]
  /\ audioFinished = [id |-> 0, outcome |-> "none", stopped |-> FALSE]
  /\ delivered = {}

\* The initial states with one seed.  noise2D is called by animate only, so
\* that the specifications without the render loop never read the table.
InitOneSeed ==
  /\ Init
  /\ \A k \in SeedSamples : simplexPerm = SimplexNoise(k) => \A m \in SeedSamples : k <= m

(***************************************************************************)
(* Audio: loadAudioBuffer, switchAudio, setupAudio, pointerdown listener.  *)
(***************************************************************************)

\* line 402: audioState.buffers.has(url)
CacheHas(url) == buffers[url] # 0

\* Faulty variant of loadAudioBuffer: line 411 missing, so that the entry
\* is stored only when the load has resolved.
loadAudioBufferNoPlaceholder(url, k) ==
  IF CacheHas(url)
    THEN /\ k = buffers[url]
         /\ UNCHANGED <<loads, buffers>>
    ELSE /\ k = Len(loads) + 1
         /\ loads' = Append(loads, [url |-> url, state |-> "pending"])
         /\ UNCHANGED buffers

\* loadAudioBuffer(url) returning the promise of load k: the cached entry,
\* or a new loader.load call stored at once (line 411).
loadAudioBuffer(url, k) ==
  IF CacheHas(url)
    THEN /\ k = buffers[url]
         /\ UNCHANGED <<loads, buffers>>
    ELSE /\ k = Len(loads) + 1
         /\ loads' = Append(loads, [url |-> url, state |-> "pending"])
         /\ buffers' = [buffers EXCEPT ![url] = k]

\* The cache after load k of url was rejected: loadAudioBuffer attaches no
\* rejection handler, the entry stored at line 411 stays.
CacheAfterRejection(url, k) == buffers

\* The cache after load k of url resolved (line 408): an already-resolved
\* promise of the same buffer.
CacheAfterResolution(url, k) == [buffers EXCEPT ![url] = k]

\* line 422: the token comparison made when the buffer has arrived.
AudioTokenCurrent(requestId) == requestId = audioRequestId

\* switchAudio(index) up to `await loadAudioBuffer(option.file)`.
switchAudio(index, byInit) ==
  /\ desiredAudioIndex' = index
  /\ activeAudioButton' = index
  /\ audioRequestId' = audioRequestId + 1
  /\ \E k \in 1 .. (Len(loads) + 1) :
       /\ loadAudioBuffer(index, k)
       /\ audioPending' = audioPending \cup
            {[id |-> audioRequestId + 1, index |-> index, pc |-> "load", load |-> k,
              byInit |-> byInit, stopped |-> FALSE]}
  /\ UNCHANGED <<currentAudioIndex, audio, audioAnalyser, pointerdown, audioFinished,
                 delivered>>

\* init resumes after `await setupAudio()` once its switchAudio call has
\* returned: loadGvrmAvatar starts and suspends at `await ensureGvrmModule()`,
\* which starts the import (line 14).
InitAfterSetupAudio(r) ==
  IF r.byInit
    THEN /\ initPc' = "module"
         /\ ensureGvrmModule
    ELSE UNCHANGED <<initPc, gvrmModulePromise, imports>>

acqQuiet == <<nCandidates, ensureCalls, ensureYield, renderVars, gvrmModuleLoadError,
              candidate, lastError, gvrmInstance, gvrmIsReady, liveObjectUrls,
              urlsCreated, attempts, acquireError>>

acqRest == <<nCandidates, ensureCalls, ensureYield, renderVars, gvrmModuleLoadError,
             candidate, lastError, avatarCapabilities, gvrmInstance, gvrmIsReady,
             liveObjectUrls, urlsCreated, animationButtonsDisabled, attempts,
             acquireError, capabilityWrites>>

\* init() is called (line 759): setupAudio finds the listener attached and
\* the Audio built (lines 206-207) and awaits switchAudio(desiredAudioIndex).
InitStart ==
  /\ initPc = "start"
  /\ initPc' = "audio"
  /\ switchAudio(desiredAudioIndex, TRUE)
  /\ UNCHANGED <<gvrmModulePromise, imports, acqRest, animVars>>

\* A click on an audio button: handleAudioSelect(index).
ClickAudio ==
  /\ initPc # "start"
  /\ MicrotasksDrained
  /\ audioRequestId < MaxAudioRequests
  /\ \E index \in AudioIndices : switchAudio(index, FALSE)
  /\ UNCHANGED <<initPc, gvrmModulePromise, imports, acqRest, animVars>>

\* audioState.loader.load settles for load k; on success the .then of
\* lines 407-410 replaces the cache entry.
LoadSettles ==
  /\ MicrotasksDrained
  /\ \E k \in 1 .. Len(loads) :
       /\ loads[k].state = "pending"
       /\ \E ok \in BOOLEAN :
            /\ loads' = [loads EXCEPT ![k].state = IF ok THEN "ok" ELSE "fail"]
            /\ buffers' = IF ok THEN CacheAfterResolution(loads[k].url, k)
                                ELSE CacheAfterRejection(loads[k].url, k)
  /\ UNCHANGED <<currentAudioIndex, desiredAudioIndex, audioRequestId, activeAudioButton,
                 audio, audioAnalyser, audioPending, pointerdown, audioFinished, delivered>>
  /\ UNCHANGED <<initPc, gvrmModulePromise, imports, acqRest, animVars>>

\* switchAudio returns without reaching the end of its try block.
AudioReturns(r, outcome) ==
  /\ audioPending' = audioPending \ {r}
  /\ audioFinished' = [id |-> r.id, outcome |-> outcome, stopped |-> r.stopped]
  /\ InitAfterSetupAudio(r)

\* Faulty variant of lines 428-433: the index is committed when the buffer
\* is bound, before context.resume() has settled.
BindBufferCommitsEarly(r) ==
  /\ audio' = [isPlaying |-> FALSE, buffer |-> r.load]
  /\ currentAudioIndex' = r.index
  /\ audioPending' = (audioPending \ {r}) \cup
       {[r EXCEPT !.pc = "resume", !.stopped = audio.isPlaying]}
  /\ UNCHANGED <<audioAnalyser, audioFinished, initPc, gvrmModulePromise, imports>>

\* lines 428-433: stop what is playing, bind the new buffer.
BindBuffer(r) ==
  /\ audio' = [isPlaying |-> FALSE, buffer |-> r.load]
  /\ audioPending' = (audioPending \ {r}) \cup
       {[r EXCEPT !.pc = "resume", !.stopped = audio.isPlaying]}
  /\ UNCHANGED <<currentAudioIndex, audioAnalyser, audioFinished, initPc,
                 gvrmModulePromise, imports>>

\* The continuation of `await loadAudioBuffer(...)` (lines 421-434) of the
\* first runnable call: rejection caught, stale token dropped, else the
\* buffer is bound and the call suspends at `await context.resume()`.
\* audioState.audio is set at line 207 and never cleared, so the return of
\* lines 425-427 is never taken.
AudioBufferArrives ==
  /\ \E r \in Runnable :
       /\ \A q \in Runnable : r.id <= q.id
       /\ IF loads[r.load].state = "fail"
            THEN /\ AudioReturns(r, "loadRejected")
                 /\ UNCHANGED <<currentAudioIndex, audio, audioAnalyser, delivered>>
            ELSE /\ delivered' = delivered \cup {<<r.index, r.load>>}
                 /\ IF AudioTokenCurrent(r.id)
                      THEN BindBuffer(r)
                      ELSE /\ AudioReturns(r, "stale")
                           /\ UNCHANGED <<currentAudioIndex, audio, audioAnalyser>>
  /\ UNCHANGED <<desiredAudioIndex, audioRequestId, activeAudioButton, buffers, loads,
                 pointerdown>>
  /\ UNCHANGED <<acqRest, animVars>>

\* context.resume() resolves for call r (lines 435-437).
ResumeResolves ==
  /\ MicrotasksDrained
  /\ \E r \in audioPending :
       /\ r.pc = "resume"
       /\ audio' = [audio EXCEPT !.isPlaying = TRUE]
       /\ audioAnalyser' = r.id
       /\ currentAudioIndex' = r.index
       /\ AudioReturns(r, "ok")
  /\ UNCHANGED <<desiredAudioIndex, audioRequestId, activeAudioButton, buffers, loads,
                 pointerdown, delivered>>
  /\ UNCHANGED <<acqRest, animVars>>

\* context.resume() rejects for call r: caught and logged (lines 438-440).
ResumeRejects ==
  /\ MicrotasksDrained
  /\ \E r \in audioPending :
       /\ r.pc = "resume"
       /\ AudioReturns(r, "resumeRejected")
  /\ UNCHANGED <<currentAudioIndex, desiredAudioIndex, audioRequestId, activeAudioButton,
                 buffers, loads, audio, audioAnalyser, pointerdown, delivered>>
  /\ UNCHANGED <<acqRest, animVars>>

\* The first pointerdown: the once-listener awaits context.resume().
PointerDown ==
  /\ initPc # "start"
  /\ MicrotasksDrained
  /\ pointerdown = "armed"
  /\ pointerdown' = "resume"
  /\ UNCHANGED <<currentAudioIndex, desiredAudioIndex, audioRequestId, activeAudioButton,
                 buffers, loads, audio, audioAnalyser, audioPending, audioFinished,
                 delivered>>
  /\ UNCHANGED <<initPc, gvrmModulePromise, imports, acqRest, animVars>>

\* The listener's resume() settles: on success it plays a bound buffer
\* that is not playing (lines 662-664); a rejection is logged.
PointerDownResumeSettles ==
  /\ MicrotasksDrained
  /\ pointerdown = "resume"
  /\ pointerdown' = "done"
  /\ \E ok \in BOOLEAN :
       audio' = IF ok /\ ~audio.isPlaying /\ audio.buffer # 0
                  THEN [audio EXCEPT !.isPlaying = TRUE]
                  ELSE audio
  /\ UNCHANGED <<currentAudioIndex, desiredAudioIndex, audioRequestId, activeAudioButton,
                 buffers, loads, audioAnalyser, audioPending, audioFinished, delivered>>
  /\ UNCHANGED <<initPc, gvrmModulePromise, imports, acqRest, animVars>>

(***************************************************************************)
(* Acquisition actions.                                                    *)
(***************************************************************************)

\* The import settles: a module exporting GVRM, a module without it, or a
\* rejection (cached as null, error kept).  loadGvrmAvatar enters its loop.
ModuleSettles ==
  /\ MicrotasksDrained
  /\ initPc = "module"
  /\ \E outcome \in {"class", "noExport", "importError"} :
       /\ gvrmModulePromise' = IF outcome = "class" THEN "class" ELSE "null"
       /\ gvrmModuleLoadError' = IF outcome = "importError" THEN "importError" ELSE "none"
       /\ initPc' = FirstBackend(outcome = "class")
  /\ candidate' = 1
  /\ UNCHANGED imports
  /\ UNCHANGED <<nCandidates, ensureCalls, ensureYield, renderVars, lastError,
                 avatarCapabilities, gvrmInstance, gvrmIsReady, liveObjectUrls,
                 urlsCreated, animationButtonsDisabled, attempts, acquireError,
                 capabilityWrites>>
  /\ UNCHANGED <<animVars, audioVars>>

\* GVRMClass.load(candidate) resolves: capability gvrm, loadGvrmAvatar
\* returns, init stores the handle and calls switchAnimation(desired).
PrimarySucceeds ==
  /\ MicrotasksDrained
  /\ initPc = "primary"
  /\ attempts' = Append(attempts, [backend |-> "primary", candidate |-> candidate, ok |-> TRUE])
  /\ avatarCapabilities' = PrimaryCapabilities
  /\ capabilityWrites' = capabilityWrites + 1
  /\ animationButtonsDisabled' = updateAnimationButtonState(PrimaryCapabilities)
  /\ gvrmInstance' = "gvrm"
  /\ \E ready \in BOOLEAN :
       /\ gvrmIsReady' = ready
       /\ switchAnimation(desiredAnimationIndex, PrimaryCapabilities, "gvrm", ready, TRUE)
       /\ initPc' = IF AnimationGate(PrimaryCapabilities, "gvrm", ready)
                      THEN "animation" ELSE "running"
  /\ UNCHANGED <<nCandidates, ensureCalls, ensureYield, renderVars, gvrmModulePromise,
                 imports, gvrmModuleLoadError, candidate, lastError, liveObjectUrls,
                 urlsCreated, acquireError>>
  /\ UNCHANGED audioVars

\* GVRMClass.load(candidate) rejects: record the error, go on to the
\* fallback path for the same candidate.
PrimaryFails ==
  /\ MicrotasksDrained
  /\ initPc = "primary"
  /\ attempts' = Append(attempts, [backend |-> "primary", candidate |-> candidate, ok |-> FALSE])
  /\ lastError' = <<"primary", candidate>>
  /\ initPc' = "fallback"
  /\ UNCHANGED <<nCandidates, ensureCalls, ensureYield, renderVars, gvrmModulePromise,
                 imports, gvrmModuleLoadError, candidate, avatarCapabilities,
                 gvrmInstance, gvrmIsReady, liveObjectUrls, urlsCreated,
                 animationButtonsDisabled, acquireError, capabilityWrites>>
  /\ UNCHANGED <<animVars, audioVars>>

\* Faulty variant of lines 528-541: no finally block, the URL is revoked on
\* no path.
revokeObjectURLMissing(urls) == urls

\* The finally block of lines 539-541: URL.revokeObjectURL(vrmUrl), run
\* when the try block is left, by return or by throw.
revokeObjectURL(urls) == urls - 1

\* Faulty variant of init: no try / catch around the acquisition, so that
\* the rejection of loadGvrmAvatar ends init before line 656.
InitCatchMissing ==
  /\ initPc' = "rejected"
  /\ UNCHANGED <<avatarCapabilities, capabilityWrites, animationButtonsDisabled>>

\* init's catch (lines 649-654) for a rejected loadGvrmAvatar, and then
\* renderer.setAnimationLoop(animate) (line 656).
InitCatch ==
  /\ avatarCapabilities' = ErrorCapabilities
  /\ capabilityWrites' = capabilityWrites + 1
  /\ animationButtonsDisabled' = updateAnimationButtonState(ErrorCapabilities)
  /\ initPc' = "running"

\* Catch of a failed fallback (lines 575-578), then the next candidate or,
\* after the last one, the throw of lines 581-585 caught by init (649-656).
FallbackFailed(urls) ==
  /\ attempts' = Append(attempts, [backend |-> "fallback", candidate |-> candidate, ok |-> FALSE])
  /\ lastError' = <<"fallback", candidate>>
  /\ liveObjectUrls' = urls
  /\ UNCHANGED urlsCreated
  /\ IF candidate < nCandidates
       THEN /\ candidate' = candidate + 1
            /\ initPc' = FirstBackend(GVRMClass)
            /\ UNCHANGED <<avatarCapabilities, animationButtonsDisabled, acquireError,
                           capabilityWrites>>
       ELSE /\ acquireError' = ThrownError(<<"fallback", candidate>>, GVRMClass,
                                           gvrmModuleLoadError)
            /\ InitCatch
            /\ UNCHANGED candidate
  /\ UNCHANGED <<nCandidates, ensureCalls, ensureYield, renderVars, gvrmModulePromise,
                 imports, gvrmModuleLoadError, gvrmInstance, gvrmIsReady>>
  /\ UNCHANGED <<animVars, audioVars>>

\* loadSimpleVRMFromGvrm up to createObjectURL: the fetch / unzip chain
\* fails (HTTP error, missing model.vrm, a rejected read) or yields the blob.
FallbackExtract ==
  /\ MicrotasksDrained
  /\ initPc = "fallback"
  /\ \E outcome \in {"httpError", "noEntry", "extracted"} :
       IF outcome = "extracted"
         THEN /\ liveObjectUrls' = liveObjectUrls + 1
              /\ urlsCreated' = urlsCreated + 1
              /\ initPc' = "fallbackLoad"
              /\ UNCHANGED <<nCandidates, ensureCalls, ensureYield, renderVars,
                             gvrmModulePromise, imports, gvrmModuleLoadError, candidate,
                             lastError, avatarCapabilities, gvrmInstance, gvrmIsReady,
                             animationButtonsDisabled, attempts, acquireError,
                             capabilityWrites>>
              /\ UNCHANGED <<animVars, audioVars>>
         ELSE FallbackFailed(liveObjectUrls)

\* fallbackGLTFLoader.loadAsync(vrmUrl) rejects, or resolves without a VRM
\* payload: the finally block revokes the URL, then the catch of 575-578.
FallbackLoadFails ==
  /\ MicrotasksDrained
  /\ initPc = "fallbackLoad"
  /\ \E outcome \in {"loaderRejected", "noPayload"} :
       FallbackFailed(revokeObjectURL(liveObjectUrls))

\* The loader resolves with a VRM: wrapper built, URL revoked, capability
\* simple-vrm, init stores the handle and calls switchAnimation(desired).
FallbackSucceeds ==
  /\ MicrotasksDrained
  /\ initPc = "fallbackLoad"
  /\ attempts' = Append(attempts, [backend |-> "fallback", candidate |-> candidate, ok |-> TRUE])
  /\ liveObjectUrls' = revokeObjectURL(liveObjectUrls)
  /\ UNCHANGED urlsCreated
  /\ avatarCapabilities' = FallbackCapabilities
  /\ capabilityWrites' = capabilityWrites + 1
  /\ animationButtonsDisabled' = updateAnimationButtonState(FallbackCapabilities)
  /\ gvrmInstance' = "simple-vrm"
  /\ gvrmIsReady' = TRUE
  /\ switchAnimation(desiredAnimationIndex, FallbackCapabilities, "simple-vrm", TRUE, TRUE)
  /\ initPc' = IF AnimationGate(FallbackCapabilities, "simple-vrm", TRUE)
                 THEN "animation" ELSE "running"
  /\ UNCHANGED <<nCandidates, ensureCalls, ensureYield, renderVars, gvrmModulePromise,
                 imports, gvrmModuleLoadError, candidate, lastError, acquireError>>
  /\ UNCHANGED audioVars

(***************************************************************************)
(* Animation switching.                                                    *)
(***************************************************************************)

\* Faulty variant of the comparison of line 393: every resolution commits.
AnimationTokenIgnored(requestId) == TRUE

\* line 393: the token comparison made when changeFBX has resolved.
AnimationTokenCurrent(requestId) == requestId = animationRequestId

\* A click on an enabled animation button: handleAnimationSelect(index).
ClickAnimation ==
  /\ MicrotasksDrained
  /\ ~animationButtonsDisabled
  /\ \E index \in AnimationIndices :
       /\ AnimationGate(avatarCapabilities, gvrmInstance, gvrmIsReady)
            => animationRequestId < MaxAnimRequests
       /\ switchAnimation(index, avatarCapabilities, gvrmInstance, gvrmIsReady, FALSE)
  /\ UNCHANGED <<acqVars, audioVars>>

\* A click event delivered to a disabled animation button.  button.disabled
\* (line 172) keeps the user's clicks away, not an event dispatched by
\* script: the listener of line 140 then calls handleAnimationSelect(index).
DispatchAnimationClick ==
  /\ MicrotasksDrained
  /\ animationButtonsDisabled
  /\ \E index \in AnimationIndices :
       /\ AnimationGate(avatarCapabilities, gvrmInstance, gvrmIsReady)
            => animationRequestId < MaxAnimRequests
       /\ switchAnimation(index, avatarCapabilities, gvrmInstance, gvrmIsReady, FALSE)
  /\ UNCHANGED <<acqVars, audioVars>>

\* init resumes after `await switchAnimation(...)`: setAnimationLoop(animate).
InitAfterSwitchAnimation(r) == IF r.byInit THEN "running" ELSE initPc

\* gvrmInstance.changeFBX(file) resolves for request r (lines 393-395).
ChangeFBXResolves ==
  /\ MicrotasksDrained
  /\ \E r \in animPending :
       /\ animPending' = animPending \ {r}
       /\ IF AnimationTokenCurrent(r.id)
            THEN /\ currentAnimationIndex' = r.index
                 /\ animHistory' = [animHistory EXCEPT !.latestOk = TRUE,
                      !.settled = [id |-> r.id, outcome |-> "committed"]]
            ELSE /\ animHistory' = [animHistory EXCEPT !.dropped = TRUE,
                      !.settled = [id |-> r.id, outcome |-> "dropped"]]
                 /\ UNCHANGED currentAnimationIndex
       /\ initPc' = InitAfterSwitchAnimation(r)
       /\ UNCHANGED <<avatarCapabilities, capabilityWrites, animationButtonsDisabled>>
  /\ UNCHANGED <<desiredAnimationIndex, animationRequestId, activeAnimationButton>>
  /\ UNCHANGED <<gvrmModulePromise, imports, acqQuiet, audioVars>>

\* Faulty variant of lines 391-398: no catch in switchAnimation, so that the
\* rejection of the call init awaits reaches init's catch (lines 649-654).
SwitchAnimationRethrows(r) ==
  IF r.byInit
    THEN /\ avatarCapabilities' = ErrorCapabilities
         /\ capabilityWrites' = capabilityWrites + 1
         /\ animationButtonsDisabled' = updateAnimationButtonState(ErrorCapabilities)
         /\ initPc' = "running"
    ELSE UNCHANGED <<initPc, avatarCapabilities, capabilityWrites, animationButtonsDisabled>>

\* lines 396-398: switchAnimation catches the rejection and logs it; the
\* call returns normally to whoever awaits it.
SwitchAnimationCatch(r) ==
  /\ initPc' = InitAfterSwitchAnimation(r)
  /\ UNCHANGED <<avatarCapabilities, capabilityWrites, animationButtonsDisabled>>

\* changeFBX rejects for request r.
ChangeFBXRejects ==
  /\ MicrotasksDrained
  /\ \E r \in animPending :
       /\ animPending' = animPending \ {r}
       /\ animHistory' = [animHistory EXCEPT !.settled = [id |-> r.id, outcome |-> "rejected"]]
       /\ SwitchAnimationCatch(r)
  /\ UNCHANGED <<currentAnimationIndex, desiredAnimationIndex, animationRequestId,
                 activeAnimationButton>>
  /\ UNCHANGED <<gvrmModulePromise, imports, acqQuiet, audioVars>>

\* isReady belongs to the external GVRM object: the library may change it.
GvrmReadyChanges ==
  /\ MicrotasksDrained
  /\ gvrmInstance = "gvrm"
  /\ gvrmIsReady' = ~gvrmIsReady
  /\ UNCHANGED <<nCandidates, ensureCalls, ensureYield, renderVars, initPc,
                 gvrmModulePromise, imports, gvrmModuleLoadError, candidate, lastError,
                 avatarCapabilities, gvrmInstance, liveObjectUrls, urlsCreated,
                 animationButtonsDisabled, attempts, acquireError, capabilityWrites>>
  /\ UNCHANGED <<animVars, audioVars>>

\* A further call of ensureGvrmModule(), from any caller, once
\* loadGvrmAvatar has made the first: the call returns the stored promise.
EnsureGvrmModuleCall ==
  /\ MicrotasksDrained
  /\ initPc \notin {"start", "audio"}
  /\ ensureCalls < MaxEnsureCalls
  /\ ensureCalls' = ensureCalls + 1
  /\ ensureGvrmModule
  /\ ensureYield' = gvrmModulePromise'
  /\ UNCHANGED <<nCandidates, renderVars, initPc, gvrmModuleLoadError, candidate, lastError,
                 avatarCapabilities, gvrmInstance, gvrmIsReady, liveObjectUrls, urlsCreated,
                 animationButtonsDisabled, attempts, acquireError, capabilityWrites>>
  /\ UNCHANGED <<animVars, audioVars>>

(***************************************************************************)
(* Palette selection and the render loop.                                  *)
(***************************************************************************)

\* applyPalette(index), lines 353-354 and 368.
applyPalette(index) ==
  /\ haloBaseOpacity' = PaletteHaloOpacity[index + 1]
  /\ haloOpacity' = PaletteHaloOpacity[index + 1] * (OpacityUnit \div 100)
  /\ haloPulse' = 0
  /\ currentPaletteIndex' = index

\* A click on a palette button: handlePaletteSelect(index).
HandlePaletteSelect ==
  /\ MicrotasksDrained
  /\ \E index \in 0 .. (NumPalettes - 1) : applyPalette(index)
  /\ UNCHANGED <<simplexPerm, drift, noiseFirst, noiseBetween>>
  /\ UNCHANGED <<nCandidates, ensureCalls, ensureYield, initPc, gvrmModulePromise, imports,
                 gvrmModuleLoadError, candidate, lastError, avatarCapabilities, gvrmInstance,
                 gvrmIsReady, liveObjectUrls, urlsCreated, animationButtonsDisabled, attempts,
                 acquireError, capabilityWrites>>
  /\ UNCHANGED <<animVars, audioVars>>

\* Faulty variant of noise2D: the generator advances its table at each call.
noise2DAdvancing(cell) ==
  /\ drift' = [input |-> cell, value |-> GradientIndices(simplexPerm, cell)]
  /\ simplexPerm' = [i \in 0 .. (2 * PermSize - 1) |-> simplexPerm[(i + 1) % (2 * PermSize)]]

\* simplex.noise2D(x, y) (lines 690-757): reads this.perm, writes nothing.
noise2D(cell) ==
  /\ drift' = [input |-> cell, value |-> GradientIndices(simplexPerm, cell)]
  /\ UNCHANGED simplexPerm

\* One frame of the render loop, animate() (lines 600-635), called by the
\* renderer once init has called setAnimationLoop.
Animate ==
  /\ MicrotasksDrained
  /\ initPc = "running"
  /\ \E avgFrequency \in AvgFrequencySamples, sine \in SineSamples :
       /\ audioAnalyser # 0 => sine = 0
       /\ audioAnalyser = 0 => avgFrequency = 0
       /\ haloPulse' = Pulse(audioAnalyser, avgFrequency, sine)
       /\ haloOpacity' = HaloOpacity(haloBaseOpacity, Pulse(audioAnalyser, avgFrequency, sine))
  /\ \E cell \in NoiseCells :
       /\ noise2D(cell)
       /\ noiseFirst' = IF noiseFirst = NoCall THEN drift' ELSE noiseFirst
       /\ noiseBetween' = (noiseBetween \/ (noiseFirst # NoCall /\ cell # noiseFirst.input))
  /\ UNCHANGED <<currentPaletteIndex, haloBaseOpacity>>
  /\ UNCHANGED <<nCandidates, ensureCalls, ensureYield, initPc, gvrmModulePromise, imports,
                 gvrmModuleLoadError, candidate, lastError, avatarCapabilities, gvrmInstance,
                 gvrmIsReady, liveObjectUrls, urlsCreated, animationButtonsDisabled, attempts,
                 acquireError, capabilityWrites>>
  /\ UNCHANGED <<animVars, audioVars>>

Next ==
  \/ InitStart
  \/ ClickAudio
  \/ LoadSettles
  \/ AudioBufferArrives
  \/ ResumeResolves
  \/ ResumeRejects
  \/ PointerDown
  \/ PointerDownResumeSettles
  \/ ModuleSettles
  \/ PrimarySucceeds
  \/ PrimaryFails
  \/ FallbackExtract
  \/ FallbackLoadFails
  \/ FallbackSucceeds
  \/ ClickAnimation
  \/ ChangeFBXResolves
  \/ ChangeFBXRejects
  \/ GvrmReadyChanges
  \/ HandlePaletteSelect
  \/ Animate

Spec == Init /\ [][Next]_vars

\* The audio side alone: the runs of Spec in which the module import started
\* by init never settles.  No other action writes an audio variable.
NextAudio ==
  \/ InitStart
  \/ ClickAudio
  \/ LoadSettles
  \/ AudioBufferArrives
  \/ ResumeResolves
  \/ ResumeRejects
  \/ PointerDown
  \/ PointerDownResumeSettles

SpecAudio == InitOneSeed /\ [][NextAudio]_vars

\* Acquisition and animation switching: the runs of Spec with no click on
\* an audio button and no pointerdown, so that the only switchAudio call is
\* the one setupAudio makes, and with the candidate list as shipped (one
\* candidate; longer lists are explored by SpecStartup, without clicks).
NextAvatar ==
  \/ InitStart
  \/ LoadSettles
  \/ AudioBufferArrives
  \/ ResumeResolves
  \/ ResumeRejects
  \/ ModuleSettles
  \/ PrimarySucceeds
  \/ PrimaryFails
  \/ FallbackExtract
  \/ FallbackLoadFails
  \/ FallbackSucceeds
  \/ ClickAnimation
  \/ ChangeFBXResolves
  \/ ChangeFBXRejects
  \/ GvrmReadyChanges

\* The initial state with the candidate list of lines 545-547.
InitShipped ==
  /\ InitOneSeed
  /\ nCandidates = 1

SpecAvatar == InitShipped /\ [][NextAvatar]_vars

\* Acquisition and animation switching with the controller called while the
\* buttons are disabled as well: NextAvatar and dispatched click events.
NextSelect ==
  \/ NextAvatar
  \/ DispatchAnimationClick

SpecSelect == InitShipped /\ [][NextSelect]_vars

\* Startup alone: the runs of Spec without user input (no click, no
\* pointerdown).
NextStartup ==
  \/ InitStart
  \/ LoadSettles
  \/ AudioBufferArrives
  \/ ResumeResolves
  \/ ResumeRejects
  \/ ModuleSettles
  \/ PrimarySucceeds
  \/ PrimaryFails
  \/ FallbackExtract
  \/ FallbackLoadFails
  \/ FallbackSucceeds
  \/ ChangeFBXResolves
  \/ ChangeFBXRejects
  \/ GvrmReadyChanges

\* Every asynchronous operation init waits for settles in the end, one way
\* or the other, and a continuation that can run does run.
StartupFairness ==
  /\ WF_vars(InitStart)
  /\ WF_vars(LoadSettles)
  /\ WF_vars(AudioBufferArrives)
  /\ WF_vars(ResumeResolves \/ ResumeRejects)
  /\ WF_vars(ModuleSettles)
  /\ WF_vars(PrimarySucceeds \/ PrimaryFails)
  /\ WF_vars(FallbackExtract)
  /\ WF_vars(FallbackLoadFails \/ FallbackSucceeds)
  /\ WF_vars(ChangeFBXResolves \/ ChangeFBXRejects)

SpecStartup == InitOneSeed /\ [][NextStartup]_vars /\ StartupFairness

\* Startup with ensureGvrmModule called again, at any moment after the call
\* of line 549, by further callers.
NextModule ==
  \/ NextStartup
  \/ EnsureGvrmModuleCall

SpecModule == InitOneSeed /\ [][NextModule]_vars

\* Startup followed by the render loop, with palette clicks.
NextRender ==
  \/ NextStartup
  \/ HandlePaletteSelect
  \/ Animate

SpecRender == Init /\ [][NextRender]_vars

(***************************************************************************)
(* Properties.                                                             *)
(***************************************************************************)

\* C1: animation latest-wins.  currentAnimationIndex is written only in a
\* step in which a changeFBX call resolves whose captured requestId equals
\* animationRequestId; a superseded request that settles leaves
\* currentAnimationIndex unchanged; and once the newest request has resolved
\* successfully currentAnimationIndex is its index, whatever the order in
\* which the earlier ones settle.
C1_AnimationLatestWins ==
  [][ /\ currentAnimationIndex' # currentAnimationIndex =>
           \E r \in animPending :
             /\ r \notin animPending'
             /\ r.id = animationRequestId
             /\ currentAnimationIndex' = r.index
      /\ \A r \in animPending :
           (r \notin animPending' /\ r.id # animationRequestId) =>
             currentAnimationIndex' = currentAnimationIndex
      /\ animHistory'.latestOk => currentAnimationIndex' = animHistory'.latestIndex
    ]_vars

\* C1 witness: two requests raced, the superseded one resolved and was
\* dropped, the newest resolved, and its index is the committed one.
C1_Witness ==
  /\ animationRequestId >= 2
  /\ animPending = {}
  /\ animHistory.dropped
  /\ animHistory.latestOk
  /\ currentAnimationIndex = animHistory.latestIndex
  /\ currentAnimationIndex # 0

\* C2: audio latest-wins, as claimed.  Every step that writes
\* currentAudioIndex, rebinds the audio buffer or replaces audioAnalyser is
\* a step of a switchAudio call whose requestId equals audioRequestId.
C2_AudioWritesOnlyWithCurrentToken ==
  [][ (\/ currentAudioIndex' # currentAudioIndex
       \/ audioAnalyser' # audioAnalyser
       \/ audio'.buffer # audio.buffer) =>
        \E r \in audioPending : r \notin audioPending' /\ r.id = audioRequestId
    ]_vars

\* C3: as claimed.  A switchAudio call that ended in a rejection (buffer
\* load or context.resume) has not stopped audio that was playing (and so has
\* not bound another buffer to it).
C3_FailedSwitchLeavesAudioPlaying ==
  audioFinished.outcome \in {"loadRejected", "resumeRejected"} => ~audioFinished.stopped

\* C4: a switchAudio call that is rejected (load or resume) or stale at the
\* check never commits.  currentAudioIndex and audioAnalyser change only in
\* the step in which a call returns through the success path; and when the
\* call awaited by init returns, by whatever path, init goes on to the
\* acquisition with the capability record untouched.
C4_FailedOrStaleSwitchNeverCommits ==
  [][ /\ (currentAudioIndex' # currentAudioIndex \/ audioAnalyser' # audioAnalyser) =>
           (audioFinished' # audioFinished /\ audioFinished'.outcome = "ok")
      /\ (audioFinished' # audioFinished /\ audioFinished'.outcome # "ok") =>
           /\ currentAudioIndex' = currentAudioIndex
           /\ audioAnalyser' = audioAnalyser
      /\ (audioFinished' # audioFinished /\ initPc = "audio" /\ audioFinished'.id = 1) =>
           /\ initPc' = "module"
           /\ avatarCapabilities' = avatarCapabilities
    ]_vars

\* C4 witness: after request 1 committed index 0, request 2 for index 1 was
\* rejected at resume; the committed index and analyser are still request 1's.
C4_Witness ==
  /\ audioFinished.id = 2
  /\ audioFinished.outcome = "resumeRejected"
  /\ desiredAudioIndex = 1
  /\ currentAudioIndex = 0
  /\ audioAnalyser = 1

\* Loader invocations made for a URL.
LoadsOf(url) == {k \in 1 .. Len(loads) : loads[k].url = url}

\* C5: the cache collapses requests.  For a URL whose load succeeded the
\* loader was invoked exactly once, and all callers of loadAudioBuffer for
\* that URL received the same decoded buffer.
C5_CacheCollapsesRequests ==
  /\ \A u \in AudioIndices :
       (\E k \in LoadsOf(u) : loads[k].state = "ok") => Cardinality(LoadsOf(u)) = 1
  /\ \A d1 \in delivered : \A d2 \in delivered : d1[1] = d2[1] => d1[2] = d2[2]

\* C5 witness: two calls were waiting on the one in-flight load of a URL; it
\* resolved, the first caller has its buffer and the second is about to
\* receive the same one.
C5_Witness ==
  \E r \in audioPending :
    /\ r.pc = "load"
    /\ loads[r.load].state = "ok"
    /\ <<r.index, r.load>> \in delivered
    /\ Cardinality(LoadsOf(r.index)) = 1

\* C6: as claimed.  The cache holds no entry for a URL whose load rejected.
C6_FailuresAreNotCached ==
  \A u \in AudioIndices : buffers[u] # 0 => loads[buffers[u]].state # "fail"

\* The k-th attempt of the fixed order, given whether the extended class is
\* available: primary then fallback per candidate, or fallback only.
ExpectedAttempt(k, class) ==
  IF class
    THEN [backend |-> IF k % 2 = 1 THEN "primary" ELSE "fallback", candidate |-> (k + 1) \div 2]
    ELSE [backend |-> "fallback", candidate |-> k]

\* C7: acquisition order.  The attempts made are a prefix of candidate1
\* primary, candidate1 fallback, candidate2 primary, ... (primary only when
\* the extended class loaded); only the last attempt made can have
\* succeeded, no attempt is in progress after it, and the capability record
\* is then gvrm / supportsFBX for a primary success and simple-vrm / no
\* supportsFBX for a fallback success.
C7_AcquisitionOrder ==
  /\ \A k \in 1 .. Len(attempts) :
       /\ attempts[k].backend = ExpectedAttempt(k, gvrmModulePromise = "class").backend
       /\ attempts[k].candidate = ExpectedAttempt(k, gvrmModulePromise = "class").candidate
       /\ attempts[k].ok => k = Len(attempts)
  /\ (Len(attempts) > 0 /\ attempts[Len(attempts)].ok) =>
       /\ initPc \in {"animation", "running"}
       /\ avatarCapabilities =
            IF attempts[Len(attempts)].backend = "primary"
              THEN [supportsFBX |-> TRUE, mode |-> "gvrm"]
              ELSE [supportsFBX |-> FALSE, mode |-> "simple-vrm"]

\* C7 witness: two candidates, the extended class loaded, candidate 1 failed
\* on both backends, candidate 2 failed on primary and succeeded on fallback.
C7_Witness ==
  /\ nCandidates >= 2
  /\ Len(attempts) = 4
  /\ ~attempts[1].ok /\ ~attempts[2].ok /\ ~attempts[3].ok
  /\ attempts[4] = [backend |-> "fallback", candidate |-> 2, ok |-> TRUE]
  /\ avatarCapabilities = [supportsFBX |-> FALSE, mode |-> "simple-vrm"]

\* C8: exhaustion.  When acquisition is over and no attempt succeeded,
\* loadGvrmAvatar has rejected with the last candidate's fallback error, the
\* capability record is {supportsFBX: false, mode: 'error'} and gvrmInstance
\* is unset; and loadGvrmAvatar rejects in no other case.
C8_ExhaustionSetsError ==
  /\ (initPc \in {"animation", "running"} /\ \A k \in 1 .. Len(attempts) : ~attempts[k].ok) =>
       /\ acquireError = <<"fallback", nCandidates>>
       /\ avatarCapabilities = [supportsFBX |-> FALSE, mode |-> "error"]
       /\ gvrmInstance = "undefined"
  /\ acquireError # NoError =>
       (initPc = "running" /\ \A k \in 1 .. Len(attempts) : ~attempts[k].ok)

\* C8 witness: two candidates, the extended class loaded, all four attempts
\* failed.
C8_Witness ==
  /\ nCandidates = 2
  /\ Len(attempts) = 4
  /\ acquireError = <<"fallback", 2>>
  /\ avatarCapabilities.mode = "error"
  /\ initPc = "running"

\* C9: the capability record is written once.  It changes only from mode
\* 'loading', only to 'gvrm', 'simple-vrm' or 'error', it is assigned at
\* most once after its initializer, and it is 'loading' exactly until then.
C9_CapabilityWrittenOnce ==
  [][ /\ avatarCapabilities' # avatarCapabilities =>
           /\ avatarCapabilities.mode = "loading"
           /\ avatarCapabilities'.mode \in {"gvrm", "simple-vrm", "error"}
      /\ capabilityWrites' <= 1
      /\ (avatarCapabilities'.mode = "loading") = (capabilityWrites' = 0)
    ]_vars

\* C9 witness: the record left 'loading' for 'gvrm', and animation switches
\* followed, one of them rejected.
C9_Witness ==
  /\ avatarCapabilities.mode = "gvrm"
  /\ capabilityWrites = 1
  /\ animationRequestId = MaxAnimRequests
  /\ animPending = {}
  /\ ~animHistory.latestOk

\* The call of switchAnimation is gated: one of the guards of lines 383-388
\* returns.
Gated(caps, inst, ready) == ~caps.supportsFBX \/ inst = "undefined" \/ ~ready

\* C10, as claimed: a gated switchAnimation call leaves all session state
\* unchanged, desiredAnimationIndex and the active button included.
C10_GatedSwitchChangesNothing ==
  [][ (animHistory'.calls # animHistory.calls
       /\ Gated(avatarCapabilities', gvrmInstance', gvrmIsReady')) =>
        /\ animationRequestId' = animationRequestId
        /\ currentAnimationIndex' = currentAnimationIndex
        /\ animPending' = animPending
        /\ desiredAnimationIndex' = desiredAnimationIndex
        /\ activeAnimationButton' = activeAnimationButton
    ]_vars

\* C10, amended: a gated switchAnimation(index) call leaves
\* animationRequestId and currentAnimationIndex unchanged and invokes no
\* changeFBX, but it does record the selection: desiredAnimationIndex and
\* the active animation button become index.
C10_GatedSwitchOnlyRecordsSelection ==
  [][ (animHistory'.calls # animHistory.calls
       /\ Gated(avatarCapabilities', gvrmInstance', gvrmIsReady')) =>
        /\ animationRequestId' = animationRequestId
        /\ currentAnimationIndex' = currentAnimationIndex
        /\ animPending' = animPending
        /\ desiredAnimationIndex' = animHistory'.lastIndex
        /\ activeAnimationButton' = animHistory'.lastIndex
    ]_vars

\* C10 witness: with the extended avatar loaded but not ready, a click chose
\* another animation: the selection is recorded, no request was issued.
C10_Witness ==
  /\ avatarCapabilities.supportsFBX
  /\ ~gvrmIsReady
  /\ animHistory.lastGated
  /\ animationRequestId = 0
  /\ animPending = {}
  /\ desiredAnimationIndex # currentAnimationIndex
  /\ activeAnimationButton = desiredAnimationIndex

\* C11: as claimed.  When the newest switch has just failed (changeFBX
\* rejected, the buffer load rejected, or resume rejected) the button marked
\* active is the committed selection: the active animation button is
\* currentAnimationIndex, the active audio button is currentAudioIndex.
C11_FailedSwitchShowsCommittedSelection ==
  [][ /\ (/\ animHistory'.settled # animHistory.settled
          /\ animHistory'.settled.outcome = "rejected"
          /\ animHistory'.settled.id = animationRequestId') =>
           activeAnimationButton' = currentAnimationIndex'
      /\ (/\ audioFinished' # audioFinished
          /\ audioFinished'.outcome \in {"loadRejected", "resumeRejected"}
          /\ audioFinished'.id = audioRequestId') =>
           activeAudioButton' = currentAudioIndex'
    ]_vars

\* C12: a changeFBX rejection is caught inside switchAnimation.  In the
\* step in which a changeFBX call rejects, currentAnimationIndex and the
\* capability record keep their values; when the rejected call is the one
\* init made after a successful acquisition, init goes on to start the
\* render loop and the mode does not become 'error'.
C12_ChangeFBXRejectionIsContained ==
  [][ (animHistory'.settled # animHistory.settled
       /\ animHistory'.settled.outcome = "rejected") =>
        /\ currentAnimationIndex' = currentAnimationIndex
        /\ avatarCapabilities' = avatarCapabilities
        /\ avatarCapabilities'.mode # "error"
        /\ capabilityWrites' = capabilityWrites
        /\ initPc = "animation" => initPc' \in {"animation", "running"}
    ]_vars

\* C12 witness: the primary backend loaded, the switch init made (request 1)
\* was rejected by changeFBX, and init has started the render loop with the
\* mode still 'gvrm'.
C12_Witness ==
  /\ animHistory.settled = [id |-> 1, outcome |-> "rejected"]
  /\ avatarCapabilities = [supportsFBX |-> TRUE, mode |-> "gvrm"]
  /\ initPc = "running"
  /\ capabilityWrites = 1
  /\ currentAnimationIndex = 0

\* C13: the module import is started at most once however often
\* ensureGvrmModule is called; once it has failed the stored promise is the
\* one resolved to null, a later call returns it without importing again,
\* and the acquisition makes fallback attempts only.
C13_ImportOnceFailureCached ==
  /\ imports <= 1
  /\ (gvrmModulePromise = "unset") = (imports = 0)
  /\ gvrmModuleLoadError = "importError" =>
       /\ gvrmModulePromise = "null"
       /\ ensureYield \in {"none", "pending", "null"}
       /\ initPc # "primary"
       /\ \A k \in 1 .. Len(attempts) : attempts[k].backend = "fallback"

\* C13 witness: the import failed, ensureGvrmModule was called again
\* MaxEnsureCalls times, the last call got the promise resolved to null, one
\* import was made in all, and every candidate was tried on the fallback.
C13_Witness ==
  /\ gvrmModuleLoadError = "importError"
  /\ ensureCalls = MaxEnsureCalls
  /\ ensureYield = "null"
  /\ imports = 1
  /\ Len(attempts) = nCandidates
  /\ initPc = "running"

\* C14: in the fallback path an object URL is created only by the step that
\* goes on to the GLTF loader (a fetch / unzip failure creates none), it is
\* live exactly while loadSimpleVRMFromGvrm waits for the loader, and it is
\* revoked once, in the step in which the loader settles, whatever the
\* outcome: no URL is left live.
C14_ObjectUrlRevokedOnce ==
  [][ /\ urlsCreated' # urlsCreated =>
           /\ initPc = "fallback" /\ initPc' = "fallbackLoad"
           /\ urlsCreated' = urlsCreated + 1
           /\ liveObjectUrls' = liveObjectUrls + 1
      /\ liveObjectUrls' = (IF initPc' = "fallbackLoad" THEN 1 ELSE 0)
      /\ (initPc = "fallbackLoad" /\ initPc' # "fallbackLoad") =>
           liveObjectUrls' = liveObjectUrls - 1
    ]_vars

\* C14 witness: two candidates; the first fallback failed before a URL was
\* created, the second created one and the loader then failed: one URL
\* created, none live, acquisition over.
C14_Witness ==
  /\ nCandidates = 2
  /\ Len(attempts) >= 2
  /\ urlsCreated = 1
  /\ liveObjectUrls = 0
  /\ acquireError = <<"fallback", 2>>

\* C15: a failed acquisition does not stop the system.  Provided every
\* asynchronous startup operation settles, init reaches
\* renderer.setAnimationLoop; when it does the capability mode is 'gvrm',
\* 'simple-vrm' or 'error', never 'loading'; and once loadGvrmAvatar has
\* rejected the loop is started, the mode is 'error' and the animation
\* buttons are disabled.
C15_RenderLoopStartsAfterAcquisition ==
  /\ [](initPc = "running" => avatarCapabilities.mode \in {"gvrm", "simple-vrm", "error"})
  /\ [](acquireError # NoError =>
          /\ initPc = "running"
          /\ avatarCapabilities = [supportsFBX |-> FALSE, mode |-> "error"]
          /\ animationButtonsDisabled)
  /\ <>(initPc = "running")

\* C15 witness: every candidate failed on both backends, loadGvrmAvatar
\* rejected, and init has started the render loop in mode 'error'.
C15_Witness ==
  /\ acquireError # NoError
  /\ Len(attempts) = 2 * nCandidates
  /\ initPc = "running"
  /\ avatarCapabilities.mode = "error"
  /\ gvrmInstance = "undefined"

\* clamp(b * (0.7 + a * 0.6), 0.02, 0.6) for b in hundredths and a in units
\* of 1 / PulseUnit, in units of 1 / OpacityUnit, written out independently
\* of the model of line 621.
ClampedHaloProduct(b, a) ==
  LET raw == b * (7 * PulseUnit + 6 * a) * (OpacityUnit \div (1000 * PulseUnit))
      lower == (2 * OpacityUnit) \div 100
      upper == (6 * OpacityUnit) \div 10
  IN IF raw < lower THEN lower ELSE IF raw > upper THEN upper ELSE raw

\* C16, as claimed: the opacity a frame writes is
\* clamp(b * (0.7 + a * 0.6), 0.02, 0.6), and for b = 0.12 and a = 1.8 it is
\* the upper clamp value 0.6.
C16_HaloOpacityUpperClampAtMaxPulse ==
  haloPulse # 0 =>
    /\ haloOpacity = ClampedHaloProduct(haloBaseOpacity, haloPulse)
    /\ (haloBaseOpacity = 12 /\ haloPulse = (18 * PulseUnit) \div 10) =>
         haloOpacity = (6 * OpacityUnit) \div 10

\* C16, amended: the opacity a frame writes is
\* clamp(b * (0.7 + a * 0.6), 0.02, 0.6); for b = 0.12 and a = 1.8 it is the
\* raw product 0.2136, below the upper clamp value 0.6.
C16_HaloOpacityIsClampedProduct ==
  haloPulse # 0 =>
    /\ haloOpacity = ClampedHaloProduct(haloBaseOpacity, haloPulse)
    /\ (haloBaseOpacity = 12 /\ haloPulse = (18 * PulseUnit) \div 10) =>
         /\ haloOpacity = 2136 * (OpacityUnit \div 10000)
         /\ haloOpacity < (6 * OpacityUnit) \div 10

\* C16 witness: with an analyser, a frame whose average frequency gives the
\* largest pulse 1.8 has written the halo opacity for base opacity 0.12.
C16_Witness ==
  /\ audioAnalyser # 0
  /\ haloBaseOpacity = 12
  /\ haloPulse = (18 * PulseUnit) \div 10
  /\ haloOpacity = 2136 * (OpacityUnit \div 10000)

\* C17: as claimed.  Whenever playback is blocked (the last switchAudio call
\* to return was rejected at context.resume(), a buffer is bound, nothing
\* plays and no call is left waiting for resume) the pointerdown listener is
\* still registered, so that the next pointerdown resumes the context and
\* plays the bound buffer.
C17_BlockedPlaybackRetriedOnPointerDown ==
  (/\ audioFinished.outcome = "resumeRejected"
   /\ audio.buffer # 0
   /\ ~audio.isPlaying
   /\ \A r \in audioPending : r.pc # "resume") =>
    pointerdown # "done"

\* C18: noise2D is deterministic and free of side effects.  No step, a
\* frame of the render loop included, changes the permutation table the
\* constructor built; and a noise2D call with the input of the first call
\* ever made returns what that first call returned, whatever calls were
\* made in between.
C18_NoiseDeterministicTableImmutable ==
  [][ /\ simplexPerm' = simplexPerm
      /\ (noiseFirst # NoCall /\ drift'.input = noiseFirst.input) =>
           drift'.value = noiseFirst.value
    ]_vars

\* C18 witness: after a first noise2D call, a call with another input was
\* made, and the last call, with the first input again, returned the first
\* value.
C18_Witness ==
  /\ noiseFirst # NoCall
  /\ noiseBetween
  /\ drift.input = noiseFirst.input
  /\ drift.value = noiseFirst.value

\* C19: as claimed.  While the context.resume() awaited by the switchAudio
\* call of setupAudio is unsettled, init is not held up by it: it has gone
\* past `await setupAudio()` and avatar acquisition has started.
C19_PendingResumeDoesNotHoldInit ==
  \A r \in audioPending : (r.byInit /\ r.pc = "resume") => initPc # "audio"

\* C20: as claimed.  Whenever the audio source is playing, the buffer bound
\* to it is the decoded file of audioOptions[currentAudioIndex].
C20_PlayingBufferIsCommittedIndex ==
  audio.isPlaying => (audio.buffer # 0 /\ loads[audio.buffer].url = currentAudioIndex)

\* C21: a selection made while the avatar is loading is not lost.
\* desiredAnimationIndex is always the index of the most recent
\* switchAnimation call; in the step in which the extended backend loads
\* with a ready handle, init issues the newest request, for the
\* desiredAnimationIndex of that moment; and when that request's changeFBX
\* resolves with no switchAnimation call made after init's, it is committed
\* and currentAnimationIndex is the last selection.
C21_SelectionDuringLoadingIsNotLost ==
  /\ [](desiredAnimationIndex = animHistory.lastIndex)
  /\ [][ (initPc = "primary" /\ avatarCapabilities'.mode = "gvrm" /\ gvrmIsReady') =>
           /\ desiredAnimationIndex' = desiredAnimationIndex
           /\ \E r \in animPending' \ animPending :
                /\ r.byInit
                /\ r.index = desiredAnimationIndex
                /\ r.id = animationRequestId'
     ]_vars
  /\ [][ (/\ animHistory'.settled # animHistory.settled
          /\ animHistory'.settled.outcome \in {"committed", "dropped"}
          /\ initPc = "animation"
          /\ initPc' = "running"
          /\ ~animHistory.afterInit) =>
           /\ animHistory'.settled.outcome = "committed"
           /\ currentAnimationIndex' = desiredAnimationIndex'
           /\ currentAnimationIndex' = animHistory'.lastIndex
     ]_vars

\* C21 witness: animation 2 was selected while the avatar was loading, no
\* call followed init's own, and the request init issued has committed it.
C21_Witness ==
  /\ avatarCapabilities.mode = "gvrm"
  /\ initPc = "running"
  /\ ~animHistory.afterInit
  /\ animationRequestId = 1
  /\ animHistory.settled = [id |-> 1, outcome |-> "committed"]
  /\ desiredAnimationIndex = 2
  /\ currentAnimationIndex = 2

\* C22: the capability record is consistent and gates the controller.
\* supportsFBX is true exactly when the mode is 'gvrm'; a switchAnimation
\* call made while the mode is 'loading', 'simple-vrm' or 'error' leaves
\* animationRequestId and currentAnimationIndex unchanged and invokes no
\* changeFBX; and in those modes no request has been issued or is pending
\* and currentAnimationIndex has its initial value.
C22_CapabilityRecordGatesController ==
  /\ [](avatarCapabilities.supportsFBX <=> avatarCapabilities.mode = "gvrm")
  /\ [][ (/\ animHistory'.calls # animHistory.calls
          /\ avatarCapabilities'.mode \in {"loading", "simple-vrm", "error"}) =>
           /\ animationRequestId' = animationRequestId
           /\ animPending' = animPending
           /\ currentAnimationIndex' = currentAnimationIndex
     ]_vars
  /\ [](avatarCapabilities.mode \in {"loading", "simple-vrm", "error"} =>
           /\ animationRequestId = 0
           /\ animPending = {}
           /\ currentAnimationIndex = 0)

\* C22 witness: the fallback avatar is loaded, ready, and animation 3 was
\* selected after init's own call: no request was issued.
C22_Witness ==
  /\ avatarCapabilities = [supportsFBX |-> FALSE, mode |-> "simple-vrm"]
  /\ gvrmInstance = "simple-vrm"
  /\ gvrmIsReady
  /\ animHistory.afterInit
  /\ animHistory.lastGated
  /\ desiredAnimationIndex = 3
  /\ animationRequestId = 0
  /\ animPending = {}
  /\ currentAnimationIndex = 0

====
